---- MODULE Spec2Model ----
(***************************************************************************)
(* A model of the acquisition pipeline of doral-courts:                    *)
(*   - the structural HTML extractor  (doral-courts/html_extractor.py)     *)
(*   - the paginated fetch controller (src/doral_courts/core/scraper.py)   *)
(*   - the storage of extractions     (src/doral_courts/core/database.py)  *)
(*   - the monitor command's loop     (cli/commands/monitor_cmd.py)        *)
(*                                                                         *)
(* Text is modelled as a sequence of one-character strings, so that        *)
(* lower(), strip(), "x in y" and split() are computed, not assumed.       *)
(* Python's None is the value None below (no text equals it).              *)
(***************************************************************************)
EXTENDS Integers, Sequences, FiniteSets, TLC

VARIABLES
    \* ---- extractor (one parse_court_data call)
    soup,               \* the document handed to parse_court_data
    parsed,             \* Unparsed, or <<courts>> once parse_court_data returned
    time_slot,          \* Unread, or the time_slot summaries read from the courts
    \* ---- fetch controller (Scraper)
    pc,                 \* position of the running fetch_courts_with_html call
    sport_filter,       \* parameter sport_filter
    page,               \* local page
    all_courts,         \* local all_courts
    all_html_content,   \* local all_html_content (a body is named by its page)
    courts,             \* local courts: what the extractor gave for the last page
    csrf_token,         \* params["_csrf_token"] of the request being built
    resp_status,        \* response.status_code of the last search response
    home_status,        \* outcome of the landing-page request of this invocation
    last_request_urls,  \* self.last_request_urls
    requests,           \* HTTP requests issued by this invocation, in order
    ret,                \* NoReturn, or <<courts, html>> as returned
    stale,              \* history: how many of last_request_urls' entries an
                        \*          earlier invocation recorded
    seen,               \* history: court names extracted from earlier pages
    aggregate,          \* history: all_courts as it was when the loop was left
    terminal,           \* history: why the invocation ended
    controls,           \* history: <<buttons>>, the pagination buttons the last
                        \*          step looked for (lines 350-355), <<>> when
                        \*          the last step did not look for them
    \* ---- storage (Database)
    db,                 \* the database: tables courts and time_slots, and the
                        \* last row id given out in courts
    latest,             \* history: for every court name and date, the last
                        \*          extraction insert_courts stored without error
    \* ---- monitor command
    mpc,                \* position of the running monitor command
    shutdown_requested, \* global shutdown_requested
    poll_count,         \* local poll_count
    days_ahead,         \* option --days-ahead
    day,                \* position in dates_to_monitor of the date fetched next
    sleep_time,         \* local sleep_time, in seconds
    fetched,            \* history: the dates fetched in the current poll
    signalled,          \* history: <<>>, or <<[poll_count, mpc]>> as they were
                        \*          when the handler first set the flag
    summary             \* <<>>, or <<polls>> once the shutdown summary is out

extract_vars == <<soup, parsed, time_slot>>
fetch_vars == <<pc, sport_filter, page, all_courts, all_html_content, courts,
                csrf_token, resp_status, home_status, last_request_urls, requests,
                ret, stale, seen, aggregate, terminal, controls>>
store_vars == <<db, latest>>
monitor_vars == <<mpc, shutdown_requested, poll_count, days_ahead, day, sleep_time,
                  fetched, signalled, summary>>
vars == <<soup, parsed, time_slot, pc, sport_filter, page, all_courts, all_html_content,
          courts, csrf_token, resp_status, home_status, last_request_urls,
          requests, ret, stale, seen, aggregate, terminal, controls,
          db, latest, mpc, shutdown_requested, poll_count, days_ahead, day,
          sleep_time, fetched, signalled, summary>>

-----------------------------------------------------------------------------
(* Bounds *)

MaxButtons == 2       \* booking buttons in one booking-control row
MaxRows == 2          \* rows of one document's result tables
MaxPageLen == 2       \* court rows on one served page (fetch)
MaxPage == 2          \* pages an invocation is followed through exactly
MaxStoreSlots == 2    \* time slots of one stored court
MaxRowId == 2         \* courts rows ever inserted into the database
MaxPolls == 2         \* polls of one monitor run
MaxDays == 2          \* --days-ahead
MaxSleep == 2         \* seconds left until the next poll is due

-----------------------------------------------------------------------------
(* Text *)

None == <<"None">>

UpperCase == <<"A","B","C","D","E","F","G","H","I","J","K","L","M",
               "N","O","P","Q","R","S","T","U","V","W","X","Y","Z">>
LowerCase == <<"a","b","c","d","e","f","g","h","i","j","k","l","m",
               "n","o","p","q","r","s","t","u","v","w","x","y","z">>

\* str.lower(), one character
LowerChar(c) ==
    IF \E i \in 1..Len(UpperCase) : UpperCase[i] = c
    THEN LowerCase[CHOOSE i \in 1..Len(UpperCase) : UpperCase[i] = c]
    ELSE c

\* case mutant: the text is compared as it is written
NotLowered(s) == s

\* str.lower()
Lower(s) == [i \in 1..Len(s) |-> LowerChar(s[i])]

\* needle in hay
Contains(hay, needle) ==
    \E i \in 0..(Len(hay) - Len(needle)) :
        SubSeq(hay, i + 1, i + Len(needle)) = needle

\* str.strip(): leading and trailing blanks removed
RECURSIVE LStrip(_)
LStrip(s) == IF s # <<>> /\ Head(s) = " " THEN LStrip(Tail(s)) ELSE s
RECURSIVE RStrip(_)
RStrip(s) ==
    IF s # <<>> /\ s[Len(s)] = " " THEN RStrip(SubSeq(s, 1, Len(s) - 1)) ELSE s
Strip(s) == LStrip(RStrip(s))

\* split mutant: the text is split at the last occurrence (rsplit)
LastIndex(hay, needle) ==
    IF Contains(hay, needle)
    THEN CHOOSE i \in 1..Len(hay) :
            /\ i + Len(needle) - 1 <= Len(hay)
            /\ SubSeq(hay, i, i + Len(needle) - 1) = needle
            /\ \A j \in (i + 1)..(Len(hay) - Len(needle) + 1) :
                   SubSeq(hay, j, j + Len(needle) - 1) # needle
    ELSE 0

\* index of the first occurrence of needle in hay, 0 when there is none
FirstIndex(hay, needle) ==
    IF Contains(hay, needle)
    THEN CHOOSE i \in 1..Len(hay) :
            /\ i + Len(needle) - 1 <= Len(hay)
            /\ SubSeq(hay, i, i + Len(needle) - 1) = needle
            /\ \A j \in 1..(i - 1) :
                   SubSeq(hay, j, j + Len(needle) - 1) # needle
    ELSE 0

S_tennis == <<"t","e","n","n","i","s">>
S_Tennis == <<"T","e","n","n","i","s">>
S_Pickleball == <<"P","i","c","k","l","e","b","a","l","l">>
S_BookNow == <<"B","o","o","k"," ","N","o","w">>
S_Sep == <<" ","-"," ">>
S_UnknownCourt == <<"U","n","k","n","o","w","n"," ","C","o","u","r","t">>
S_UnknownLocation ==
    <<"U","n","k","n","o","w","n"," ","L","o","c","a","t","i","o","n">>
S_NA == <<"N","/","A">>
S_Today == <<"t","o","d","a","y">>

\* Sequences over S of length at most n
BSeq(S, n) == UNION {[1..k -> S] : k \in 0..n}

RECURSIVE Flatten(_)
Flatten(ss) == IF ss = <<>> THEN <<>> ELSE Head(ss) \o Flatten(Tail(ss))

-----------------------------------------------------------------------------
(* The structural HTML extractor                                           *)
(*                                                                         *)
(* A document is the sequence of its tables with id                        *)
(* frwebsearch_output_table; a table is [tbody, rows], rows being the tr   *)
(* of its tbody in document order; a row is                                *)
(*   [cart    : it holds a td.cart-blocks,                                 *)
(*    labels  : the number of its td.label-cell,                           *)
(*    date, name, location, class, capacity, price : the td with that      *)
(*              data-title, <<>> when absent, <<cell>> when present,       *)
(*    buttons : the a.cart-button of its td.cart-blocks]                   *)
(* and a button is [success, tooltip, text, spans].                        *)
(***************************************************************************)

\* TimeSlot(start_time, end_time, status)
TimeSlot(start, end, status) ==
    [start_time |-> start, end_time |-> end, status |-> status]

\* classification mutant: the success class alone makes a slot available
IsAvailableBySuccess(button) == button.success

\* is_available: 'success' in button_classes and 'Book Now' in button_tooltip
IsAvailable(button) == button.success /\ Contains(button.tooltip, S_BookNow)

\* button.get_text(strip=True): every text node stripped, then joined
ButtonText(button) ==
    Strip(button.text) \o Flatten([i \in 1..Len(button.spans) |-> Strip(button.spans[i])])

\* the slot of one button, <<>> when the button is skipped, else <<slot>>
SlotOfButton(button) ==
    IF ~IsAvailable(button) /\ Len(button.spans) < 1
    THEN <<>>
    ELSE LET time_range_text ==
                 IF IsAvailable(button) THEN ButtonText(button)
                 ELSE Strip(button.spans[1])
             k == FirstIndex(time_range_text, S_Sep)
             start_time ==
                 IF k > 0 THEN Strip(SubSeq(time_range_text, 1, k - 1))
                 ELSE Strip(time_range_text)
             end_time ==
                 IF k > 0
                 THEN Strip(SubSeq(time_range_text, k + Len(S_Sep), Len(time_range_text)))
                 ELSE <<>>
             status == IF IsAvailable(button) THEN "Available" ELSE "Unavailable"
         IN <<TimeSlot(start_time, end_time, status)>>

\* sibling mutant: the slots are taken from the next booking-control row of
\* the table, however many rows lie between
ExtractTimeSlotsOfNextBookingRow(rows, i) ==
    LET later == {j \in (i + 1)..Len(rows) : rows[j].cart}
    IN IF later = {} THEN <<>>
       ELSE LET n == CHOOSE j \in later : \A k \in later : j <= k
            IN Flatten([b \in 1..Len(rows[n].buttons) |->
                           SlotOfButton(rows[n].buttons[b])])

\* slot-list mutant: the first skipped button ends the list
ExtractTimeSlotsUntilSkipped(rows, i) ==
    IF i + 1 > Len(rows) THEN <<>>
    ELSE IF ~rows[i + 1].cart THEN <<>>
    ELSE LET buttons == rows[i + 1].buttons
             skipped == {b \in 1..Len(buttons) : SlotOfButton(buttons[b]) = <<>>}
             last == IF skipped = {} THEN Len(buttons)
                     ELSE (CHOOSE b \in skipped : \A c \in skipped : b <= c) - 1
         IN Flatten([b \in 1..last |-> SlotOfButton(buttons[b])])

\* _extract_time_slots(court_row), court_row being rows[i]
ExtractTimeSlots(rows, i) ==
    IF i + 1 > Len(rows) THEN <<>>             \* no next sibling tr
    ELSE IF ~rows[i + 1].cart THEN <<>>        \* no td.cart-blocks in it
    ELSE Flatten([b \in 1..Len(rows[i + 1].buttons) |->
                      SlotOfButton(rows[i + 1].buttons[b])])

\* availability mutant: a court counts as Available only when every slot is
DeriveStatusAllSlots(time_slots) ==
    IF time_slots # <<>>
    THEN IF \A k \in 1..Len(time_slots) : time_slots[k].status = "Available"
         THEN "Available" ELSE "Fully Booked"
    ELSE "No Schedule"

\* overall availability status based on time slots
DeriveStatus(time_slots) ==
    IF time_slots # <<>>
    THEN IF SelectSeq(time_slots, LAMBDA slot : slot.status = "Available") # <<>>
         THEN "Available" ELSE "Fully Booked"
    ELSE "No Schedule"

\* the Court of one accepted court row
CourtOfRow(rows, i) ==
    LET row == rows[i]
        date == IF row.date # <<>>
                THEN IF row.date[1].tooltip # <<>> THEN row.date[1].tooltip
                     ELSE Strip(row.date[1].text)
                ELSE S_Today
        name == IF row.name # <<>> THEN Strip(row.name[1]) ELSE S_UnknownCourt
        location == IF row.location # <<>> THEN Strip(row.location[1])
                    ELSE S_UnknownLocation
        class_description == IF row.class # <<>> THEN Strip(row.class[1]) ELSE <<>>
        sport_type == IF \/ Contains(Lower(class_description), S_tennis)
                         \/ Contains(Lower(name), S_tennis)
                      THEN S_Tennis ELSE S_Pickleball
        capacity == IF row.capacity # <<>> THEN Strip(row.capacity[1]) ELSE S_NA
        price == IF row.price # <<>> THEN Strip(row.price[1]) ELSE None
        time_slots == ExtractTimeSlots(rows, i)
    IN [name |-> name, sport_type |-> sport_type, location |-> location,
        capacity |-> capacity,
        availability_status |-> DeriveStatus(time_slots),
        date |-> date, time_slots |-> time_slots, price |-> price]

\* cell-count mutant: five label cells are required
InsufficientCellsUnder5(row) == row.labels < 5

\* len(cells) < 4
InsufficientCells(row) == row.labels < 4

\* what row i of a tbody contributes: nothing when it is a booking-control
\* row (line 153), when its processing raised (except Exception: continue) or
\* when it has insufficient cells, else its Court
CourtsOfRow(rows, i) ==
    IF rows[i].cart THEN <<>>
    ELSE IF rows[i].fault THEN <<>>
    ELSE IF InsufficientCells(rows[i]) THEN <<>>
    ELSE <<CourtOfRow(rows, i)>>

\* error-handling mutant: the first row that raises ends the table's loop
FirstFault(rows) ==
    IF \E i \in 1..Len(rows) : ~rows[i].cart /\ rows[i].fault
    THEN CHOOSE i \in 1..Len(rows) :
            /\ ~rows[i].cart /\ rows[i].fault
            /\ \A j \in 1..(i - 1) : rows[j].cart \/ ~rows[j].fault
    ELSE Len(rows) + 1
CourtsOfTableUntilFault(table) ==
    IF ~table.tbody THEN <<>>
    ELSE Flatten([i \in 1..(FirstFault(table.rows) - 1) |->
                    CourtsOfRow(table.rows, i)])

\* the courts of one table
CourtsOfTable(table) ==
    IF ~table.tbody THEN <<>>
    ELSE Flatten([i \in 1..Len(table.rows) |-> CourtsOfRow(table.rows, i)])

\* table mutant: only the first result table is read (find, not find_all)
ParseFirstTable(doc) == IF doc = <<>> THEN <<>> ELSE CourtsOfTable(doc[1])

\* parse_court_data(soup)
ParseCourtData(doc) ==
    IF doc = <<>> THEN <<>>
    ELSE Flatten([t \in 1..Len(doc) |-> CourtsOfTable(doc[t])])

-----------------------------------------------------------------------------
(* Documents the extractor is run on *)

T_8to9 == <<"8"," ","-"," ","9">>
T_9to10 == <<" ","9"," ","-"," "," ","1","0">>
T_NameA == <<"T","E","N","N","I","S"," ","A">>
T_NameB == <<"C","o","u","r","t"," ","B">>
T_NameC == <<"C","o","u","r","t"," ","C">>
T_ClassPickle == <<"P","i","c","k","l","e","b","a","l","l"," ","C","o","u","r","t">>
T_Date == <<"0","7","/","1","1">>

\* <a class="... success cart-button" data-tooltip="Book Now">8 - 9</a>
ButtonAvailable ==
    [success |-> TRUE, tooltip |-> S_BookNow, text |-> T_8to9, spans |-> <<>>]
\* <a class="... error cart-button"><span> 9 -  10</span><span>x</span></a>
ButtonBooked ==
    [success |-> FALSE, tooltip |-> <<>>, text |-> <<>>, spans |-> <<T_9to10, <<"x">>>>]
\* <a class="... error cart-button">x</a>: no nested label
ButtonBare ==
    [success |-> FALSE, tooltip |-> <<>>, text |-> <<"x">>, spans |-> <<>>]

ButtonKinds == {ButtonAvailable, ButtonBooked, ButtonBare}

\* fault: processing the row inside the try block (lines 159-228) raises
NoCells == [cart |-> FALSE, labels |-> 0, date |-> <<>>, name |-> <<>>,
            location |-> <<>>, class |-> <<>>, capacity |-> <<>>, price |-> <<>>,
            buttons |-> <<>>, fault |-> FALSE]

\* a booking-control row
CartRow(buttons) == [NoCells EXCEPT !.cart = TRUE, !.buttons = buttons]

\* a court row with the given name and four label cells, none of them optional
CourtRow(name) ==
    [NoCells EXCEPT !.labels = 4, !.name = <<name>>,
                    !.date = <<[text |-> T_Date, tooltip |-> <<>>]>>]

\* a court row with every labelled cell
FullCourtRow(name, class) ==
    [NoCells EXCEPT !.labels = 6, !.name = <<name>>, !.class = <<class>>,
                    !.date = <<[text |-> <<>>, tooltip |-> T_Date]>>,
                    !.location = <<<<"L">>>>, !.capacity = <<<<"4">>>>,
                    !.price = <<<<"$">>>>]

\* a row with fewer than four label cells
ShortRow == [NoCells EXCEPT !.labels = 3, !.name = <<T_NameC>>]

\* a court row whose processing raises
FaultyRow == [CourtRow(T_NameC) EXCEPT !.fault = TRUE]

CourtRowKinds ==
    {CourtRow(T_NameA), FullCourtRow(T_NameB, T_ClassPickle), ShortRow, FaultyRow}

\* the rows a table is made of, booking rows holding at most n buttons
RowKinds(n) == CourtRowKinds \cup {CartRow(bs) : bs \in BSeq(ButtonKinds, n)}

Table(rows) == [tbody |-> TRUE, rows |-> rows]
NoBodyTable == [tbody |-> FALSE, rows |-> <<>>]

\* the rows rs laid out as one table, or as two tables cut after row cut
Layout(rs, cut) ==
    IF cut = Len(rs) THEN <<Table(rs)>>
    ELSE <<Table(SubSeq(rs, 1, cut)), Table(SubSeq(rs, cut + 1, Len(rs)))>>

\* the documents made of the rows rs: no table, a table without body, the
\* rows as one table, the rows as two tables cut after the first row, and a
\* table without body followed by the rows as a table
DocumentsOf(rs) ==
    {Layout(rs, Len(rs)), <<NoBodyTable>> \o Layout(rs, Len(rs))}
    \cup (IF rs = <<>> THEN {<<>>, <<NoBodyTable>>} ELSE {Layout(rs, 1)})

Unparsed == <<"unparsed">>
NoReturn == <<"running">>
Unread == <<"unread">>

-----------------------------------------------------------------------------
(* The extractor run on one document *)

\* the database as init_database leaves a new file: both tables empty
StoreEmpty ==
    /\ db = [courts |-> {}, time_slots |-> {}, seq |-> 0]
    /\ latest = {}

\* no monitor command is running
MonitorIdle ==
    /\ mpc = "idle" /\ shutdown_requested = FALSE /\ poll_count = 0
    /\ days_ahead = 0 /\ day = 0 /\ sleep_time = 0 /\ fetched = 0
    /\ signalled = <<>> /\ summary = <<>>

FetchIdle ==
    /\ pc = "idle" /\ sport_filter = Unread /\ page = 0
    /\ all_courts = <<>> /\ all_html_content = <<>> /\ courts = <<>>
    /\ csrf_token = <<>> /\ resp_status = 0 /\ home_status = 0
    /\ last_request_urls = <<>> /\ requests = <<>>
    /\ ret = NoReturn /\ stale = 0 /\ seen = {} /\ aggregate = <<>>
    /\ terminal = "none" /\ controls = <<>>

ExtractInit ==
    /\ \E k \in 0..MaxRows :
           \E rs \in [1..k -> RowKinds(MaxButtons)] : soup \in DocumentsOf(rs)
    /\ parsed = Unparsed
    /\ time_slot = Unread
    /\ FetchIdle
    /\ StoreEmpty
    /\ MonitorIdle

\* courts = extractor.parse_court_data(soup)
Parse ==
    /\ parsed = Unparsed
    /\ parsed' = <<ParseCourtData(soup)>>
    /\ UNCHANGED <<soup, time_slot>>
    /\ UNCHANGED <<fetch_vars, store_vars, monitor_vars>>

ExtractNext == Parse

\* rows for the sibling rule: court rows and booking-control rows
SiblingRowKinds ==
    {CourtRow(T_NameA), CourtRow(T_NameB),
     CartRow(<<ButtonAvailable>>), CartRow(<<ButtonBooked>>)}

\* up to MaxRows + 1 such rows as one table, or as two tables cut anywhere
SiblingInit ==
    /\ \E k \in 0..(MaxRows + 1) :
           \E rs \in [1..k -> SiblingRowKinds] :
               \E cut \in {c \in 0..k : c = k \/ c >= 1} : soup = Layout(rs, cut)
    /\ parsed = Unparsed
    /\ time_slot = Unread
    /\ FetchIdle
    /\ StoreEmpty
    /\ MonitorIdle

SpecSiblings == SiblingInit /\ [][ExtractNext]_vars

SpecExtract == ExtractInit /\ [][ExtractNext]_vars

-----------------------------------------------------------------------------
(* Properties of the extractor *)

ParsedCourts == IF parsed = Unparsed THEN <<>> ELSE parsed[1]

HasAvailableSlot(c) ==
    \E k \in 1..Len(c.time_slots) : c.time_slots[k].status = "Available"

\* C1: every Court produced by parse_court_data has availability_status
\* "No Schedule" exactly when its time_slots is empty, "Available" exactly when
\* at least one of its slots is Available, and "Fully Booked" otherwise; no
\* other value is assigned.
C1_StatusFollowsSlots ==
    \A i \in 1..Len(ParsedCourts) :
        LET c == ParsedCourts[i] IN
        /\ c.availability_status \in {"No Schedule", "Available", "Fully Booked"}
        /\ (c.availability_status = "No Schedule") <=> (c.time_slots = <<>>)
        /\ (c.availability_status = "Available") <=> HasAvailableSlot(c)
        /\ (c.availability_status = "Fully Booked") <=>
               (c.time_slots # <<>> /\ ~HasAvailableSlot(c))

\* a parsed document holding a court with a booked and an available slot
C1_Witness ==
    \E i \in 1..Len(ParsedCourts) :
        LET c == ParsedCourts[i] IN
        /\ Len(c.time_slots) = 2
        /\ c.time_slots[1].status = "Unavailable"
        /\ c.time_slots[2].status = "Available"
        /\ c.availability_status = "Available"

-----------------------------------------------------------------------------
(* The paginated fetch controller: what the portal serves                  *)
(***************************************************************************)

\* the outcome of a request that raised instead of returning a response
Raised == -1

Digits == <<"0","1","2","3","4","5","6","7","8","9">>

\* str(n), n >= 0
RECURSIVE StrOfInt(_)
StrOfInt(n) ==
    IF n < 10 THEN <<Digits[n + 1]>>
    ELSE StrOfInt(n \div 10) \o <<Digits[(n % 10) + 1]>>

IsDigit(c) == \E d \in 1..Len(Digits) : Digits[d] = c
DigitValue(c) == (CHOOSE d \in 1..Len(Digits) : Digits[d] = c) - 1

RECURSIVE DecimalValue(_)
DecimalValue(s) ==
    IF s = <<>> THEN 0
    ELSE 10 * DecimalValue(SubSeq(s, 1, Len(s) - 1)) + DigitValue(s[Len(s)])

\* int(s): <<n>>, or <<>> where int() raises ValueError
\* (blanks around the digits are accepted; signs and underscores are not modelled)
IntOfStr(s) ==
    LET t == Strip(s) IN
    IF t # <<>> /\ \A i \in 1..Len(t) : IsDigit(t[i])
    THEN <<DecimalValue(t)>> ELSE <<>>

\* the court names the portal lists
CourtNames == {T_NameA, T_NameB, T_NameC}

\* a served result page listing the given names: one table, one court row each
PageDocument(names) == <<Table([i \in 1..Len(names) |-> CourtRow(names[i])])>>

\* the pagination buttons of a served page: [lastpage, value], lastpage saying
\* the button has class paging__lastpage, value its data-click-set-value
\* (None when the attribute is missing)
PageValues == {StrOfInt(k) : k \in 1..(MaxPage + 2)}
GotoButtons == {[lastpage |-> FALSE, value |-> v] : v \in PageValues}
LastButtons ==
    {[lastpage |-> TRUE, value |-> v] : v \in PageValues \cup {None, <<"x">>}}
PageButtons ==
    {<<>>} \cup {<<g>> : g \in GotoButtons} \cup {<<l>> : l \in LastButtons}
    \cup {<<g, [lastpage |-> TRUE, value |-> <<"1">>]>> : g \in GotoButtons}

PageDocuments == {PageDocument(names) : names \in BSeq(CourtNames, MaxPageLen)}

\* the served pages that list at most one court
SingleCourtDocuments == {PageDocument(names) : names \in BSeq(CourtNames, 1)}

\* served pages on which most names are repeats and one is new
RepeatDocuments ==
    {PageDocument(names) :
        names \in {<<>>, <<T_NameA>>, <<T_NameC>>, <<T_NameA, T_NameB>>,
                   <<T_NameB, T_NameC>>, <<T_NameA, T_NameB, T_NameC>>}}

\* no pagination button, or a last-page control declaring a page beyond every
\* page that is followed
EndButtons == {<<>>, <<[lastpage |-> TRUE, value |-> StrOfInt(MaxPage + 2)]>>}

\* search outcomes: a status, with some document of PageDocuments and some
\* buttons of PageButtons when it is 200; Raised is a
\* requests.RequestException raised by session.get
SearchStatuses == {200, 403, 500, Raised}

\* landing-page outcomes
HomeOutcomes == {200, 403, 500, 503, Raised}

\* landing-page outcomes around the boundaries of the status classes
LandingOutcomes == {200, 302, 403, 404, 499, 500, 503, Raised}

\* the token the portal issues with the search form of a page view
PortalToken(p) == <<"k">> \o StrOfInt(p)

\* token-page outcomes: [status, value], value being the value of the
\* _csrf_token input (<<>> when there is no such input or it is empty)
TokenOutcomes(p) ==
    {[status |-> 200, value |-> PortalToken(p)], [status |-> 200, value |-> <<>>],
     [status |-> 403, value |-> PortalToken(p)], [status |-> Raised, value |-> <<>>]}

\* token-page outcomes from which _get_csrf_token gets no token: the input is
\* missing, the status is not 200, or the request raised
FailedTokenOutcomes(p) ==
    {[status |-> 200, value |-> <<>>], [status |-> 403, value |-> PortalToken(p)],
     [status |-> 500, value |-> <<>>], [status |-> Raised, value |-> <<>>]}

\* sport_filter arguments
SportFilters ==
    {None, <<>>, <<"t","E","N","N","I","S">>, <<"t","e","n">>, Lower(S_Pickleball)}

-----------------------------------------------------------------------------
(* The paginated fetch controller: Scraper                                 *)
(***************************************************************************)

\* bootstrap mutants: every response counts as success; 500 counts as success
SessionOkAnyStatus(outcome) == outcome # Raised
SessionOkUpTo500(outcome) == outcome # Raised /\ outcome <= 500

\* bootstrap mutant: client errors count as failures too
SessionOkBelow400(outcome) == outcome # Raised /\ outcome < 400

\* response.status_code < 500, and no exception
SessionOk(outcome) == outcome # Raised /\ outcome < 500

\* token mutant: the input's value is taken whatever the status
CsrfTokenAnyStatus(outcome) == outcome.value

\* token mutant: the token of the first page view is used for every page
CsrfTokenOfFirstPage(outcome) ==
    IF outcome.status = 200 /\ outcome.value # <<>> THEN PortalToken(1) ELSE <<>>

\* _get_csrf_token(): the token, "" on any failure
CsrfToken(outcome) ==
    IF outcome.status = 200 /\ outcome.value # <<>> THEN outcome.value ELSE <<>>

\* beyond MaxPage the model stops recording history: page = MaxPage + 1 stands
\* for every later page
Recorded(p) == p <= MaxPage
Record(history, entry, p) == IF Recorded(p) THEN Append(history, entry) ELSE history

\* pagination mutant: the same page is requested again
PageKept(p) == p

\* page += 1
PageAfter(p) == IF Recorded(p) THEN p + 1 ELSE p

\* response.url of the search response for a page (its other query parameters
\* do not vary within the model)
Url(p) == [page |-> p]

Names(cs) == {cs[i].name : i \in 1..Len(cs)}

\* len(new_court_names.intersection(existing_court_names))
DuplicateCount(existing, found) == Cardinality(Names(found) \cap Names(existing))

\* duplicate_count > 0 and page > 1 and duplicate_count / len(courts) > 0.5
MostlyDuplicates(existing, found, p) ==
    /\ DuplicateCount(existing, found) > 0
    /\ p > 1
    /\ 2 * DuplicateCount(existing, found) > Len(found)

\* deduplication mutant: every court of the page is taken
NewCourtsUnfiltered(existing, found) == found

\* [court for court in courts if court.name not in existing_court_names]
NewCourts(existing, found) ==
    SelectSeq(found, LAMBDA court : court.name \notin Names(existing))

\* stop mutant: the page's new courts are added before the loop is left
ExtendedAtStop(existing, found) == existing \o NewCourts(existing, found)

\* lines 316-322: the break comes before all_courts.extend, so the aggregate
\* after the anomalous-repeat stop is the aggregate before the page
KeptAtStop(existing, found) == existing

\* aggregation mutant: the new courts are put in front
ExtendAtFront(existing, new_courts) == new_courts \o existing

\* all_courts.extend(new_courts)
Extend(existing, new_courts) == existing \o new_courts

\* body mutant: the body of every response is kept, whatever its status
StoredHtmlAnyStatus(bodies, status, p) == Record(bodies, p, p)

\* lines 261-270: all_html_content after a response; only a 200 body is kept
StoredHtml(bodies, status, p) ==
    IF status = 200 THEN Record(bodies, p, p) ELSE bodies

\* soup.find("button", {"data-click-set-value": str(page + 1)})
HasNextPageButton(buttons, p) ==
    \E b \in 1..Len(buttons) : buttons[b].value = StrOfInt(p + 1)

\* soup.find("button", class_="paging__lastpage"): <<>> or <<button>>
LastPageButton(buttons) ==
    LET found == SelectSeq(buttons, LAMBDA b : b.lastpage) IN
    IF found = <<>> THEN <<>> ELSE <<Head(found)>>

\* pagination mutant: any pagination button lets the loop go on
AdvanceOnAnyButton(buttons, p) ==
    HasNextPageButton(buttons, p) \/ LastPageButton(buttons) # <<>>

\* the decision after a page with courts: TRUE to request page p + 1
Advance(buttons, p) ==
    IF ~HasNextPageButton(buttons, p) /\ LastPageButton(buttons) = <<>>
    THEN FALSE
    ELSE IF HasNextPageButton(buttons, p) THEN TRUE
    ELSE LET last_page_value ==
                 IF LastPageButton(buttons)[1].value = None THEN <<"1">>
                 ELSE LastPageButton(buttons)[1].value
             max_page == IntOfStr(last_page_value)
         IN IF max_page = <<>> THEN FALSE       \* ValueError
            ELSE ~(p >= max_page[1])

\* filter mutant: the filter matches as a substring of the sport type
SportMatchesSubstring(court, filter) ==
    Contains(Lower(court.sport_type), Lower(filter))

\* court.sport_type.lower() == sport_filter.lower()
SportMatches(court, filter) == Lower(court.sport_type) = Lower(filter)

\* lines 411-431: the list that is returned
ApplySportFilter(cs, filter) ==
    IF cs # <<>> /\ filter # None /\ filter # <<>>
    THEN SelectSeq(cs, LAMBDA court : SportMatches(court, filter))
    ELSE cs

\* aggregate mutant: the list an earlier invocation built is carried over
KeptAggregate(previous) == previous

\* line 234: all_courts = [], whatever an earlier invocation left behind
NewAggregate(previous) == <<>>

\* parse_court_data over the served documents, computed once per document
ExtractedCourts == [d \in PageDocuments \cup RepeatDocuments |-> ParseCourtData(d)]

Init ==
    /\ soup = <<>>
    /\ parsed = Unparsed
    /\ time_slot = Unread
    /\ FetchIdle
    /\ StoreEmpty
    /\ MonitorIdle

\* scraper.fetch_courts_with_html(date, sport_filter) is called.
\* all_courts is bound at line 234, not at the call: until then the model keeps
\* the list the previous invocation returned, so that line 234 is what
\* separates the invocations.
Start ==
    /\ pc \in {"idle", "done"}
    /\ sport_filter' = Unread
    /\ pc' = "init"
    /\ page' = 0 /\ UNCHANGED all_courts /\ all_html_content' = <<>>
    /\ courts' = <<>> /\ csrf_token' = <<>> /\ resp_status' = 0
    /\ home_status' = 0 /\ requests' = <<>> /\ ret' = NoReturn
    /\ seen' = {} /\ aggregate' = <<>> /\ terminal' = "none"
    /\ stale' = Len(last_request_urls)
    /\ controls' = <<>>
    /\ UNCHANGED <<last_request_urls, soup, parsed, time_slot>>
    /\ UNCHANGED <<store_vars, monitor_vars>>

\* lines 229-237: _initialize_session() and the locals set up after it
\* the landing page answering with one of Outcomes
InitializeSessionOn(Outcomes) ==
    /\ pc = "init"
    /\ \E outcome \in Outcomes :
        /\ home_status' = outcome
        /\ requests' = Append(requests, "home")
        /\ IF SessionOk(outcome)
           THEN /\ pc' = "token"
                /\ page' = 1
                /\ all_courts' = NewAggregate(all_courts)
                /\ all_html_content' = <<>>
                /\ last_request_urls' = <<>>
                /\ stale' = 0
                /\ UNCHANGED <<ret, terminal>>
           ELSE /\ pc' = "done"
                /\ ret' = <<<<>>, <<>>>>
                /\ terminal' = "bootstrap"
                /\ UNCHANGED <<page, all_courts, all_html_content,
                               last_request_urls, stale>>
    /\ controls' = <<>>
    /\ UNCHANGED <<sport_filter, courts, csrf_token, resp_status, seen,
                   aggregate, soup, parsed, time_slot>>
    /\ UNCHANGED <<store_vars, monitor_vars>>

InitializeSession == InitializeSessionOn(HomeOutcomes)

\* the same step over the landing-page outcomes of every status class
InitializeSessionLanding == InitializeSessionOn(LandingOutcomes)

\* line 242: _build_search_params(date, page), which fetches the token
\* the token page answering with one of Outcomes
BuildSearchParamsOn(Outcomes) ==
    /\ pc = "token"
    /\ \E outcome \in Outcomes :
        csrf_token' = CsrfToken(outcome)
    /\ requests' = Record(requests, "token", page)
    /\ pc' = "search"
    /\ controls' = <<>>
    /\ UNCHANGED <<sport_filter, page, all_courts, all_html_content, courts,
                   resp_status, home_status, last_request_urls, ret, stale,
                   seen, aggregate, terminal, soup, parsed, time_slot>>
    /\ UNCHANGED <<store_vars, monitor_vars>>

BuildSearchParams == BuildSearchParamsOn(TokenOutcomes(page))

\* the same step when every token request fails
BuildSearchParamsFailing == BuildSearchParamsOn(FailedTokenOutcomes(page))

\* lines 253-406: the search request of one page and what the loop does with
\* the response, up to the next iteration or to leaving the loop, the portal
\* serving one of Documents with one of Buttons when it answers 200
SearchPageServing(Documents, Buttons) ==
    /\ pc = "search"
    /\ csrf_token' = <<>>          \* params is rebuilt before it is read again
    /\ requests' = Record(requests, "search", page)
    /\ \E status \in SearchStatuses :
        /\ resp_status' = status
        /\ IF status = Raised
           THEN /\ terminal' = "network"
                /\ pc' = "finalize"
                /\ controls' = <<>>
                /\ UNCHANGED <<last_request_urls, all_html_content, courts,
                               all_courts, page, seen>>
           ELSE /\ last_request_urls' = Record(last_request_urls, Url(page), page)
                /\ all_html_content' = StoredHtml(all_html_content, status, page)
                /\ IF status = 200
                   THEN \E found \in {ExtractedCourts[doc] : doc \in Documents} :
                        /\ courts' = found
                        /\ seen' = seen \cup Names(found)
                        /\ IF found = <<>>
                           THEN /\ terminal' = "exhausted"
                                /\ pc' = "finalize"
                                /\ controls' = <<>>
                                /\ UNCHANGED <<all_courts, page>>
                           ELSE IF MostlyDuplicates(all_courts, found, page)
                           THEN /\ terminal' = "repeat"
                                /\ pc' = "finalize"
                                /\ controls' = <<>>
                                /\ all_courts' = KeptAtStop(all_courts, found)
                                /\ UNCHANGED page
                           ELSE /\ all_courts' = Extend(all_courts, NewCourts(all_courts, found))
                                /\ \E buttons \in Buttons :
                                    /\ controls' = <<buttons>>
                                    /\ IF Advance(buttons, page)
                                       THEN /\ page' = PageAfter(page)
                                            /\ pc' = "token"
                                            /\ UNCHANGED terminal
                                       ELSE /\ terminal' = "nomore"
                                            /\ pc' = "finalize"
                                            /\ UNCHANGED page
                   ELSE /\ terminal' = IF status = 403 THEN "blocked"
                                       ELSE "siteerror"
                        /\ pc' = "finalize"
                        /\ controls' = <<>>
                        /\ UNCHANGED <<courts, all_courts, page, seen>>
    /\ UNCHANGED <<sport_filter, home_status, ret, stale, aggregate, soup, parsed,
                   time_slot>>
    /\ UNCHANGED <<store_vars, monitor_vars>>

\* the search step with every document of PageDocuments served, and with the
\* two pagination outcomes: no button, or a last-page control beyond the page
SearchPage == SearchPageServing(PageDocuments, EndButtons)

\* the search step with every pagination button served, on pages of at most
\* one court
SearchPageControls == SearchPageServing(SingleCourtDocuments, PageButtons)

\* the search step on pages that repeat most of an earlier page
SearchPageRepeats == SearchPageServing(RepeatDocuments, EndButtons)

\* lines 408-437: combine the bodies, filter by sport, return.
\* The argument sport_filter is read here for the first time, so it is drawn
\* here: the value the caller passed.
Finalize ==
    /\ pc = "finalize"
    /\ \E f \in SportFilters :
        /\ sport_filter' = f
        /\ all_courts' = ApplySportFilter(all_courts, f)
        /\ ret' = <<ApplySportFilter(all_courts, f), all_html_content>>
    /\ aggregate' = all_courts
    /\ pc' = "done"
    /\ controls' = <<>>
    /\ UNCHANGED <<page, all_html_content, courts, csrf_token,
                   resp_status, home_status, last_request_urls, requests, stale,
                   seen, terminal, soup, parsed, time_slot>>
    /\ UNCHANGED <<store_vars, monitor_vars>>

\* get_last_request_url()
BaseUrl == [page |-> 0]
GetLastRequestUrl ==
    IF last_request_urls # <<>> THEN last_request_urls[Len(last_request_urls)]
    ELSE BaseUrl

\* get_all_request_urls()
GetAllRequestUrls == last_request_urls

\* the steps of a running invocation, pages followed exactly up to MaxPage
Step ==
    \/ InitializeSession
    \/ (Recorded(page) /\ BuildSearchParams)
    \/ SearchPage
    \/ Finalize

Next == Start \/ Step

Spec == Init /\ [][Next]_vars

\* the controller with every pagination button served
PagingNext ==
    \/ Start
    \/ InitializeSession
    \/ (Recorded(page) /\ BuildSearchParams)
    \/ SearchPageControls
    \/ Finalize

SpecPaging == Init /\ [][PagingNext]_vars

\* the controller with repeating pages served
RepeatNext ==
    \/ Start
    \/ InitializeSession
    \/ (Recorded(page) /\ BuildSearchParams)
    \/ SearchPageRepeats
    \/ Finalize

SpecRepeat == Init /\ [][RepeatNext]_vars

\* the controller when no token request ever succeeds
TokenFailureNext ==
    \/ Start
    \/ InitializeSession
    \/ (Recorded(page) /\ BuildSearchParamsFailing)
    \/ SearchPageControls
    \/ Finalize

SpecTokenFailure == Init /\ [][TokenFailureNext]_vars

\* the controller over every class of landing-page outcome
BootstrapNext ==
    \/ Start
    \/ InitializeSessionLanding
    \/ (Recorded(page) /\ BuildSearchParams)
    \/ SearchPageControls
    \/ Finalize

SpecBootstrap == Init /\ [][BootstrapNext]_vars

\* the same controller followed past MaxPage
BeyondMaxPage == ~Recorded(page) /\ BuildSearchParams

FairNext == Start \/ Step \/ BeyondMaxPage

\* every HTTP request completes, and the interpreter keeps running the call
FairSpec == Init /\ [][FairNext]_vars /\ WF_vars(Step \/ BeyondMaxPage)

-----------------------------------------------------------------------------
(* Properties of the fetch controller *)

\* the step handles the search response of a page that came with status 200
\* and at least one court (courts' and resp_status' are that page's)
HandlesPageWithCourts == pc = "search" /\ resp_status' = 200 /\ courts' # <<>>

\* the courts of cs whose name is in the set names
NamedIn(cs, names) == SelectSeq(cs, LAMBDA c : c.name \in names)

\* what the step appended to the aggregate (defined when it only appended)
Appended == SubSeq(all_courts', Len(all_courts) + 1, Len(all_courts'))

\* C2: on a page after the first with status 200 and courts, if more than half
\* of the page's courts (every row counted) have a name seen on an earlier
\* page, the controller stops at that page and adds none of them.
C2_MajorityDuplicatesStop ==
    [][(HandlesPageWithCourts /\ page > 1
            /\ 2 * Len(NamedIn(courts', seen)) > Len(courts'))
         => (/\ pc' = "finalize"
             /\ Len(all_courts') >= Len(all_courts)
             /\ NamedIn(Appended, seen) = <<>>)]_vars

\* C3: a page with status 200 and courts that does not trigger the
\* anomalous-repeat stop appends exactly its courts whose name was not on an
\* earlier page, in the page's order.
C3_AppendsExactlyNewCourts ==
    [][(HandlesPageWithCourts /\ terminal' # "repeat")
         => all_courts' =
                all_courts \o SelectSeq(courts', LAMBDA c : c.name \notin seen)]_vars

\* the second page held one court already seen and one new court (50%), and
\* the new one was appended
C3_Witness ==
    /\ pc \in {"token", "finalize"}
    /\ all_html_content = <<1, 2>>
    /\ Len(courts) = 2
    /\ Len(all_courts) = 2
    /\ courts[1].name = all_courts[1].name
    /\ courts[2] = all_courts[2]
    /\ courts[1].name # courts[2].name

\* the invocation ended on a fatal error, told from what the portal answered
BootstrapFailed == home_status = Raised \/ home_status >= 500
SearchFailed == resp_status = Raised \/ (resp_status # 0 /\ resp_status # 200)
FatalError == BootstrapFailed \/ SearchFailed

\* the letters a and b are equal up to case
SameLetter(a, b) ==
    \/ a = b
    \/ \E k \in 1..Len(UpperCase) : {a, b} = {UpperCase[k], LowerCase[k]}
SameIgnoringCase(s, t) ==
    Len(s) = Len(t) /\ \A i \in 1..Len(s) : SameLetter(s[i], t[i])

\* a filter was passed (None and the empty string both mean no filter)
FilterGiven == sport_filter # None /\ sport_filter # <<>>

\* the aggregated courts that pass the filter of this invocation
PassingFilter ==
    IF FilterGiven
    THEN SelectSeq(aggregate, LAMBDA c : SameIgnoringCase(c.sport_type, sport_filter))
    ELSE aggregate

\* C4 as stated: an invocation that ends on a fatal error, on whatever page,
\* returns the empty court sequence.
C4_FatalReturnsEmpty ==
    (pc = "done" /\ FatalError) => ret[1] = <<>>

\* C4 as amended: after a fatal error at bootstrap or on the first page the
\* returned sequence is empty; after a fatal error on a later page it is the
\* courts aggregated from the earlier pages that pass the sport filter.
C4_FatalReturnsEarlierPages ==
    (pc = "done" /\ FatalError) =>
        /\ (BootstrapFailed \/ page = 1) => ret[1] = <<>>
        /\ ~BootstrapFailed => (ret[1] = PassingFilter /\ Names(aggregate) = seen)

\* page 2 answered 403 after page 1 had given courts, and they were returned
C4_Witness ==
    /\ pc = "done" /\ resp_status = 403 /\ page = 2
    /\ ret[1] # <<>> /\ ret[1] = aggregate

\* C5: if the landing page answers 500 or above, or the request raises, fetch
\* returns an empty court list and empty HTML, having made exactly one HTTP
\* request: no token request, no search request, no second bootstrap.
C5_BootstrapFailureIsFinal ==
    BootstrapFailed =>
        /\ pc = "done"
        /\ ret = <<<<>>, <<>>>>
        /\ requests = <<"home">>

\* an invocation returned after the landing page answered 500
C5_Witness ==
    pc = "done" /\ home_status = 500 /\ requests = <<"home">> /\ ret[1] = <<>>

\* C6: every invocation returns, whatever the portal serves, as long as every
\* HTTP request completes.
C6_EveryInvocationReturns == (pc = "init") ~> (pc = "done")

RECURSIVE IsSubsequence(_, _)
IsSubsequence(a, b) ==
    IF a = <<>> THEN TRUE
    ELSE IF b = <<>> THEN FALSE
    ELSE IF Head(a) = Head(b) THEN IsSubsequence(Tail(a), Tail(b))
    ELSE IsSubsequence(a, Tail(b))

\* C7: the aggregate only grows at its end, what a page adds keeps the order
\* the extractor produced, and the returned sequence keeps the aggregate's
\* order: courts of an earlier page precede courts of a later page.
C7_FirstSeenOrder ==
    [][/\ pc = "search" =>
            /\ Len(all_courts') >= Len(all_courts)
            /\ SubSeq(all_courts', 1, Len(all_courts)) = all_courts
            /\ IsSubsequence(Appended, courts')
       /\ pc = "finalize" => IsSubsequence(ret'[1], all_courts)]_vars

\* two pages each gave a court, and the returned sequence lists page 1's first
C7_Witness ==
    /\ pc = "done" /\ all_html_content = <<1, 2>>
    /\ Len(ret[1]) = 2
    /\ ret[1][1].name \notin Names(courts)
    /\ ret[1][2].name \in Names(courts)

\* C8: with a sport filter the returned sequence is exactly the aggregated
\* courts whose sport_type equals the filter ignoring case (no substring
\* match), in the aggregate's order; without one it is the whole aggregate.
C8_SportFilterExact ==
    (pc = "done" /\ ~BootstrapFailed) => ret[1] = PassingFilter

\* a filter differing from "Tennis" only by case kept the tennis court and
\* dropped the other court
C8_Witness ==
    /\ pc = "done" /\ sport_filter = <<"t","E","N","N","I","S">>
    /\ Len(aggregate) = 2 /\ Len(ret[1]) = 1
    /\ ret[1][1].sport_type = S_Tennis

\* the invocation ended on its first page for one of the reasons an empty
\* result can have, other than a bootstrap failure
FirstPageFailed == ~BootstrapFailed /\ page = 1 /\ SearchFailed
FirstPageEmpty == ~BootstrapFailed /\ page = 1 /\ resp_status = 200 /\ courts = <<>>

\* C9 as stated: the value fetch returns tells the reasons for an empty result
\* apart: after a 403, another non-200 status, a network error or a first
\* page without courts it is not the value returned after a bootstrap
\* failure, which is ([], "").
C9_ReasonsDistinguishable ==
    (pc = "done" /\ (FirstPageFailed \/ FirstPageEmpty)) => ret # <<<<>>, <<>>>>

\* C9 as amended: fetch returns the same value, the empty list with empty
\* HTML, after a bootstrap failure, a 403, another non-200 status and a network
\* error on the first page, so what it hands back does not tell these reasons
\* apart; a first page without courts returns the empty list with that page's
\* body.
C9_SameValueForFatalReasons ==
    pc = "done" =>
        /\ (BootstrapFailed \/ FirstPageFailed) => ret = <<<<>>, <<>>>>
        /\ FirstPageEmpty => ret = <<<<>>, <<1>>>>

\* the first page answered 403 and fetch returned ([], "")
C9_Witness ==
    pc = "done" /\ resp_status = 403 /\ page = 1 /\ ret = <<<<>>, <<>>>>

\* C10: once fetch has returned, the URL accessors report only search requests
\* of that invocation, and the last URL is that of the last page it was
\* answered for.
C10_UrlsOfLastInvocationOnly ==
    pc = "done" =>
        /\ stale = 0
        /\ (resp_status # 0 /\ resp_status # Raised) => GetLastRequestUrl = Url(page)
        /\ \A i \in 1..Len(GetAllRequestUrls) : GetAllRequestUrls[i] = Url(i)

\* C11: the names the controller deduplicates against are those of the current
\* invocation only: the first page is requested with an empty aggregate, no
\* recorded body and no recorded URL whatever list an earlier invocation on the
\* same Scraper left, and while pages are being requested the names in the
\* aggregate are exactly the names extracted by this invocation.
C11_SeenNamesPerInvocation ==
    /\ [][(pc = "init" /\ pc' = "token")
            => (all_courts' = <<>> /\ all_html_content' = <<>>
                /\ last_request_urls' = <<>> /\ page' = 1)]_vars
    /\ [](pc \in {"token", "search"} => Names(all_courts) = seen)

\* an invocation starts on a Scraper whose previous invocation returned courts
\* and recorded a URL
C11_Witness ==
    pc = "init" /\ all_courts # <<>> /\ stale > 0

-----------------------------------------------------------------------------
(* The extractor run on one court row and its booking-control row, with the  *)
(* cells and buttons varied, and Court.time_slot read from the result       *)
(***************************************************************************)

T_ClassTennis == <<"T","e","n","n","i","s"," ","C","o","u","r","t">>
T_Noon == <<" ","n","o","o","n"," ">>
T_8dash9 == <<"8","-","9">>
T_1to2to3 == <<"1"," ","-"," ","2"," ","-"," ","3">>
T_Full == <<"F","u","l","l">>
T_BookNowLong == <<"B","o","o","k"," ","N","o","w","!">>

\* <a class="success cart-button" data-tooltip="Full"><span>8 - 9</span></a>
ButtonSuccessOnly ==
    [success |-> TRUE, tooltip |-> T_Full, text |-> <<>>, spans |-> <<T_8to9>>]
\* <a class="error cart-button" data-tooltip="Book Now"><span>8 - 9</span></a>
ButtonTooltipOnly ==
    [success |-> FALSE, tooltip |-> S_BookNow, text |-> <<>>, spans |-> <<T_8to9>>]
\* <a class="success cart-button" data-tooltip="Book Now"> noon </a>
ButtonNoSeparator ==
    [success |-> TRUE, tooltip |-> S_BookNow, text |-> T_Noon, spans |-> <<>>]
\* <a class="error cart-button"><span>8-9</span></a>
ButtonBookedNoSeparator ==
    [success |-> FALSE, tooltip |-> <<>>, text |-> <<>>, spans |-> <<T_8dash9>>]
\* <a class="success cart-button" data-tooltip="Book Now">1 - 2 - 3</a>
ButtonTwoSeparators ==
    [success |-> TRUE, tooltip |-> S_BookNow, text |-> T_1to2to3, spans |-> <<>>]
\* <a class="success cart-button" data-tooltip="Book Now!">8 - 9</a>
ButtonLongTooltip ==
    [success |-> TRUE, tooltip |-> T_BookNowLong, text |-> T_8to9, spans |-> <<>>]

DetailButtonKinds ==
    ButtonKinds \cup {ButtonSuccessOnly, ButtonTooltipOnly, ButtonNoSeparator,
                      ButtonBookedNoSeparator, ButtonTwoSeparators,
                      ButtonLongTooltip}

\* four label cells, none of them the name, date, location, class, capacity
\* or price cell
NamelessRow == [NoCells EXCEPT !.labels = 4]

\* a class-description cell that is present and empty
EmptyClassRow == [CourtRow(T_NameC) EXCEPT !.labels = 5, !.class = <<<<>>>>]

\* a Date cell that is present, has no date badge and holds only white space
BlankDateRow ==
    [CourtRow(T_NameA) EXCEPT !.date = <<[text |-> <<" ">>, tooltip |-> <<>>]>>]

DetailRowKinds ==
    {CourtRow(T_NameA), FullCourtRow(T_NameB, T_ClassPickle),
     FullCourtRow(T_NameB, T_ClassTennis), NamelessRow, EmptyClassRow, ShortRow,
     BlankDateRow}

S_NoTimeSlots == <<"N","o"," ","t","i","m","e"," ","s","l","o","t","s">>
S_SlashSep == <<"/">>
S_AvailableSuffix == <<" ","a","v","a","i","l","a","b","l","e">>

\* summary mutant: the empty slot list is not told apart
TimeSlotOfCounts(court) ==
    StrOfInt(Len(SelectSeq(court.time_slots,
                           LAMBDA slot : slot.status = "Available")))
    \o S_SlashSep \o StrOfInt(Len(court.time_slots)) \o S_AvailableSuffix

\* Court.time_slot
TimeSlotProperty(court) ==
    IF court.time_slots = <<>> THEN S_NoTimeSlots
    ELSE StrOfInt(Len(SelectSeq(court.time_slots,
                                LAMBDA slot : slot.status = "Available")))
         \o S_SlashSep \o StrOfInt(Len(court.time_slots)) \o S_AvailableSuffix

DetailInit ==
    /\ \E row \in DetailRowKinds, bs \in BSeq(DetailButtonKinds, MaxButtons) :
           soup = <<Table(<<row, CartRow(bs)>>)>>
    /\ parsed = Unparsed
    /\ time_slot = Unread
    /\ FetchIdle
    /\ StoreEmpty
    /\ MonitorIdle

\* court.time_slot read for every court parse_court_data returned
ReadTimeSlot ==
    /\ parsed # Unparsed
    /\ time_slot = Unread
    /\ time_slot' = [i \in 1..Len(parsed[1]) |-> TimeSlotProperty(parsed[1][i])]
    /\ UNCHANGED <<soup, parsed>>
    /\ UNCHANGED <<fetch_vars, store_vars, monitor_vars>>

DetailNext == Parse \/ ReadTimeSlot

SpecDetail == DetailInit /\ [][DetailNext]_vars

-----------------------------------------------------------------------------
(* Further properties of the extractor *)

\* the positions <<table, row>> of a document's tbody rows, in document order
RowPositions(doc) ==
    Flatten([t \in 1..Len(doc) |->
                IF doc[t].tbody
                THEN [i \in 1..Len(doc[t].rows) |-> <<t, i>>]
                ELSE <<>>])

RowAt(doc, p) == doc[p[1]].rows[p[2]]

\* the positions of the accepted court rows: not a booking-control row, at
\* least four label cells, processing does not raise
AcceptedRows(doc) ==
    SelectSeq(RowPositions(doc),
              LAMBDA p : /\ ~RowAt(doc, p).cart
                         /\ ~RowAt(doc, p).fault
                         /\ RowAt(doc, p).labels >= 4)

\* the booking buttons that belong to the row at p: those of the row that
\* follows it in its table, when that is a booking-control row
ButtonsAfter(doc, p) ==
    IF p[2] + 1 <= Len(doc[p[1]].rows) /\ doc[p[1]].rows[p[2] + 1].cart
    THEN doc[p[1]].rows[p[2] + 1].buttons
    ELSE <<>>

\* the button carries the success class and a tooltip holding "Book Now"
Marked(b) ==
    /\ b.success
    /\ \E i \in 1..Len(b.tooltip) :
           i + Len(S_BookNow) - 1 <= Len(b.tooltip)
           /\ SubSeq(b.tooltip, i, i + Len(S_BookNow) - 1) = S_BookNow

\* the buttons that yield a slot: the available ones, and the others that
\* have a nested label
YieldingButtons(doc, p) ==
    SelectSeq(ButtonsAfter(doc, p), LAMBDA b : Marked(b) \/ Len(b.spans) >= 1)

\* the document with every row whose processing raises replaced by a row that
\* is skipped for its cell count
SkippedRow(row) ==
    IF ~row.cart /\ row.fault THEN [row EXCEPT !.fault = FALSE, !.labels = 0]
    ELSE row
WithFaultsSkipped(doc) ==
    [t \in 1..Len(doc) |->
        [doc[t] EXCEPT !.rows = [i \in 1..Len(doc[t].rows) |->
                                    SkippedRow(doc[t].rows[i])]]]

\* C12: a court row whose processing raises contributes no court and changes
\* nothing else: parse_court_data returns what it returns for the same
\* document with that row replaced by a skipped row, so every accepted row
\* before and after it, in its table and in the other tables, keeps its court.
C12_RowFaultIsLocal ==
    parsed # Unparsed => ParsedCourts = ParseCourtData(WithFaultsSkipped(soup))

\* a parsed table whose first row raised and whose second row gave its court
C12_Witness ==
    /\ parsed # Unparsed
    /\ Len(soup) = 1 /\ Len(soup[1].rows) = 2
    /\ soup[1].rows[1].fault
    /\ Len(ParsedCourts) = 1
    /\ ParsedCourts[1].name = T_NameA

\* C13: a row with fewer than four label cells yields no court, and every row
\* with four or more yields exactly one Court, whichever of its other cells
\* are missing: location "Unknown Location" without a location cell, name
\* "Unknown Court" without a name cell, price None (not the empty string)
\* without a price cell.
C13_CellCountAndDefaults ==
    parsed # Unparsed =>
        /\ Len(ParsedCourts) = Len(AcceptedRows(soup))
        /\ \A k \in 1..Len(ParsedCourts) :
            LET row == RowAt(soup, AcceptedRows(soup)[k])
                c == ParsedCourts[k]
            IN /\ row.location = <<>> => c.location = S_UnknownLocation
               /\ row.name = <<>> => c.name = S_UnknownCourt
               /\ row.price = <<>> => (c.price = None /\ c.price # <<>>)

\* a parsed row with four label cells and no name, location or price cell
C13_Witness ==
    /\ parsed # Unparsed
    /\ soup[1].rows[1].labels = 4 /\ soup[1].rows[1].name = <<>>
    /\ Len(ParsedCourts) = 1
    /\ ParsedCourts[1].name = S_UnknownCourt
    /\ ParsedCourts[1].location = S_UnknownLocation
    /\ ParsedCourts[1].price = None

\* C14: parse_court_data returns the empty list for a document without a
\* result table or whose result tables have no body, and otherwise exactly the
\* Court of each accepted court row of every result table, in the order of the
\* tables and, within a table, of the rows.
C14_OneCourtPerAcceptedRow ==
    parsed # Unparsed =>
        /\ (soup = <<>> \/ \A t \in 1..Len(soup) : ~soup[t].tbody)
               => ParsedCourts = <<>>
        /\ Len(ParsedCourts) = Len(AcceptedRows(soup))
        /\ \A k \in 1..Len(ParsedCourts) :
               LET p == AcceptedRows(soup)[k]
               IN ParsedCourts[k] = CourtOfRow(soup[p[1]].rows, p[2])

\* a parsed document of two result tables, each giving one court
C14_Witness ==
    /\ parsed # Unparsed
    /\ Len(soup) = 2 /\ soup[1].tbody /\ soup[2].tbody
    /\ Len(ParsedCourts) = 2
    /\ ParsedCourts[1].name = T_NameA
    /\ ParsedCourts[2].name = T_NameB

\* C15: the buttons of a court's booking row that yield a slot yield them in
\* order, and a slot is Available exactly when its button carries both the
\* success class and the "Book Now" tooltip; every other slot is Unavailable,
\* whatever the shape of the button's time text.
C15_StatusFromMarkersOnly ==
    parsed # Unparsed =>
        \A k \in 1..Len(ParsedCourts) :
            LET bs == YieldingButtons(soup, AcceptedRows(soup)[k])
                slots == ParsedCourts[k].time_slots
            IN /\ Len(slots) = Len(bs)
               /\ \A j \in 1..Len(slots) :
                      /\ slots[j].status \in {"Available", "Unavailable"}
                      /\ (slots[j].status = "Available") <=> Marked(bs[j])

\* a button with the success class and another tooltip gave an Unavailable
\* slot, and a button without separator in its text gave an Available one
C15_Witness ==
    /\ parsed # Unparsed
    /\ soup[1].rows[2].buttons = <<ButtonSuccessOnly, ButtonNoSeparator>>
    /\ Len(ParsedCourts) = 1
    /\ Len(ParsedCourts[1].time_slots) = 2
    /\ ParsedCourts[1].time_slots[1].status = "Unavailable"
    /\ ParsedCourts[1].time_slots[2].status = "Available"

\* the time text of a button that yields a slot: the button's own text when
\* it is available, else the text of its first nested label
TimeText(b) == IF Marked(b) THEN ButtonText(b) ELSE Strip(b.spans[1])

\* the separator " - " starts at index i of text
SeparatorAt(text, i) ==
    i + Len(S_Sep) - 1 <= Len(text) /\ SubSeq(text, i, i + Len(S_Sep) - 1) = S_Sep

\* C16: for every button that yields a slot, when its time text holds " - "
\* the slot's start_time is the trimmed text before the first occurrence and
\* its end_time the trimmed text after it; when it holds none, start_time is
\* the whole trimmed text and end_time is empty.
C16_SplitAtFirstSeparator ==
    parsed # Unparsed =>
        \A k \in 1..Len(ParsedCourts) :
            LET bs == YieldingButtons(soup, AcceptedRows(soup)[k])
                slots == ParsedCourts[k].time_slots
            IN /\ Len(slots) = Len(bs)
               /\ \A j \in 1..Len(slots) :
                    LET text == TimeText(bs[j]) IN
                    IF \E i \in 1..Len(text) : SeparatorAt(text, i)
                    THEN \E i \in 1..Len(text) :
                            /\ SeparatorAt(text, i)
                            /\ \A h \in 1..(i - 1) : ~SeparatorAt(text, h)
                            /\ slots[j].start_time = Strip(SubSeq(text, 1, i - 1))
                            /\ slots[j].end_time =
                                   Strip(SubSeq(text, i + Len(S_Sep), Len(text)))
                    ELSE /\ slots[j].start_time = Strip(text)
                         /\ slots[j].end_time = <<>>

\* a text with two separators was split at the first, and a text without
\* separator gave a slot with an empty end_time
C16_Witness ==
    /\ parsed # Unparsed
    /\ Len(ParsedCourts) = 1
    /\ Len(ParsedCourts[1].time_slots) = 2
    /\ ParsedCourts[1].time_slots[1].start_time = <<"1">>
    /\ ParsedCourts[1].time_slots[1].end_time = <<"2"," ","-"," ","3">>
    /\ ParsedCourts[1].time_slots[2].start_time = T_8dash9
    /\ ParsedCourts[1].time_slots[2].end_time = <<>>

\* the text mentions tennis, in whatever letter case
MentionsTennis(text) ==
    \E i \in 1..Len(text) :
        /\ i + Len(S_tennis) - 1 <= Len(text)
        /\ SameIgnoringCase(SubSeq(text, i, i + Len(S_tennis) - 1), S_tennis)

\* C17: the sport type of every extracted court is Tennis when "tennis"
\* occurs, ignoring case, in the row's class-description text or in the court
\* name, and Pickleball otherwise, also when the class-description cell is
\* missing or empty.
C17_SportFromClassOrName ==
    parsed # Unparsed =>
        \A k \in 1..Len(ParsedCourts) :
            LET row == RowAt(soup, AcceptedRows(soup)[k])
                class_text == IF row.class = <<>> THEN <<>> ELSE row.class[1]
                c == ParsedCourts[k]
            IN /\ c.sport_type \in {S_Tennis, S_Pickleball}
               /\ (c.sport_type = S_Tennis) <=>
                      (MentionsTennis(class_text) \/ MentionsTennis(c.name))

\* a court named in capitals "TENNIS A" without class-description cell was
\* typed Tennis
C17_Witness ==
    /\ parsed # Unparsed
    /\ soup[1].rows[1].class = <<>>
    /\ Len(ParsedCourts) = 1
    /\ ParsedCourts[1].name = T_NameA
    /\ ParsedCourts[1].sport_type = S_Tennis

\* the number of slots of the court with status Available
AvailableCount(c) ==
    Cardinality({j \in 1..Len(c.time_slots) : c.time_slots[j].status = "Available"})

\* C18: the time_slot summary of every court is "No time slots" when the court
\* has no slot, and otherwise "{a}/{t} available", t being the number of its
\* slots (at least one) and a the number of them that are Available.
C18_TimeSlotSummary ==
    time_slot # Unread =>
        /\ Len(time_slot) = Len(ParsedCourts)
        /\ \A k \in 1..Len(ParsedCourts) :
            LET c == ParsedCourts[k]
                t == Len(c.time_slots)
                a == AvailableCount(c)
            IN IF t = 0 THEN time_slot[k] = S_NoTimeSlots
               ELSE /\ 0 <= a /\ a <= t /\ t >= 1
                    /\ time_slot[k] =
                           StrOfInt(a) \o <<"/">> \o StrOfInt(t)
                           \o <<" ","a","v","a","i","l","a","b","l","e">>
                    /\ IntOfStr(SubSeq(time_slot[k], 1,
                                       FirstIndex(time_slot[k], <<"/">>) - 1)) = <<a>>

\* the summary "1/2 available" was read from a court with one available and
\* one unavailable slot
C18_Witness ==
    /\ time_slot # Unread
    /\ Len(time_slot) = 1
    /\ time_slot[1] = <<"1","/","2"," ","a","v","a","i","l","a","b","l","e">>
    /\ Len(ParsedCourts[1].time_slots) = 2

-----------------------------------------------------------------------------
(* Further properties of the fetch controller *)

\* the buttons hold a go-to-page control whose target is page n
HasGoto(buttons, n) ==
    \E b \in 1..Len(buttons) : buttons[b].value = StrOfInt(n)

\* the buttons hold a last-page control whose declared number is an integer
\* greater than n
HasLaterLastPage(buttons, n) ==
    \E b \in 1..Len(buttons) :
        /\ buttons[b].lastpage
        /\ buttons[b].value # None
        /\ IntOfStr(buttons[b].value) # <<>>
        /\ IntOfStr(buttons[b].value)[1] > n

\* C19: the controller goes on to page N+1 exactly when page N answered 200,
\* gave at least one court, did not trigger the anomalous-repeat stop, and
\* holds a go-to-page control for N+1 or, lacking that, a last-page control
\* whose declared number is an integer greater than N; in every other case
\* pagination ends at page N.
C19_AdvanceRule ==
    [][(pc = "search" /\ Recorded(page))
        => /\ (pc' = "token" /\ page' = page + 1)
                <=> (/\ resp_status' = 200
                     /\ courts' # <<>>
                     /\ terminal' # "repeat"
                     /\ controls' # <<>>
                     /\ \/ HasGoto(controls'[1], page + 1)
                        \/ HasLaterLastPage(controls'[1], page))
           /\ pc' \in {"token", "finalize"}
           /\ pc' = "finalize" => page' = page]_vars

\* page 2 is about to be requested because page 1 held no go-to-page control
\* but a last-page control declaring page 3
C19_Witness ==
    /\ pc = "token" /\ page = 2
    /\ controls = <<<<[lastpage |-> TRUE, value |-> <<"3">>]>>>>

\* the number of search requests this invocation has issued
SearchCount == Len(SelectSeq(requests, LAMBDA r : r = "search"))

\* C20: within one invocation the search requests are for pages 1, 2, ..., k
\* in that order, one request per page (the request issued while page = n is
\* the n-th, and the n-th recorded URL is that of page n), and after a search
\* request that was answered 403 or another non-200 status, or that raised,
\* the invocation issues no further HTTP request.
C20_PagesInOrderNoRetry ==
    /\ [](pc \in {"token", "search"} => SearchCount = page - 1)
    /\ [](pc \in {"token", "search", "finalize"} =>
            \A i \in 1..Len(last_request_urls) : last_request_urls[i] = Url(i))
    /\ [][(SearchFailed /\ pc' # "init") => requests' = requests]_vars

\* an invocation ended after page 2 answered 403, having issued the landing
\* page request and one token and one search request per page
C20_Witness ==
    /\ pc = "done" /\ resp_status = 403
    /\ requests = <<"home", "token", "search", "token", "search">>
    /\ last_request_urls = <<Url(1), Url(2)>>

\* the requests of an invocation are the landing-page request followed by
\* token and search requests in alternation
AlternatingRequests ==
    \A i \in 1..Len(requests) :
        requests[i] = IF i = 1 THEN "home"
                      ELSE IF i % 2 = 0 THEN "token" ELSE "search"

\* C21: the landing-page request comes first; for every page exactly one token
\* request is made between the previous page's search request and this
\* page's, and the search request carries the token that request obtained for
\* this page view (or the empty token), never the token of an earlier page.
C21_FreshTokenPerPage ==
    /\ [](AlternatingRequests)
    /\ [](pc = "search" =>
            /\ csrf_token \in {<<>>, PortalToken(page)}
            /\ Recorded(page) => (/\ Len(requests) = 2 * page
                                  /\ requests[Len(requests)] = "token"))
    /\ [][(pc = "token" /\ Recorded(page))
            => (pc' = "search" /\ requests' = Append(requests, "token"))]_vars

\* the search request of page 2 is about to be sent with the token obtained
\* for page 2
C21_Witness ==
    /\ pc = "search" /\ page = 2
    /\ csrf_token = PortalToken(2)
    /\ requests = <<"home", "token", "search", "token">>

\* C22: when the controller stops at a page for the anomalous-repeat
\* condition, the aggregate is what it was before the page: neither the
\* repeated courts nor the page's courts with new names are added.
C22_RepeatStopAddsNothing ==
    [][(pc = "search" /\ resp_status' = 200 /\ courts' # <<>>
            /\ pc' = "finalize" /\ page > 1
            /\ 2 * Cardinality(Names(courts') \cap Names(all_courts)) > Len(courts'))
        => (all_courts' = all_courts /\ terminal' = "repeat")]_vars

\* the controller stopped at page 2 for the repeat condition although the
\* page also listed a court with a new name, which was not added
C22_Witness ==
    /\ pc = "finalize" /\ terminal = "repeat" /\ page = 2
    /\ Len(courts) = 3 /\ Len(all_courts) = 2
    /\ \E i \in 1..Len(courts) : courts[i].name \notin Names(all_courts)

\* C23 as stated: the returned sequence never contains two courts with the
\* same name, whatever pages are served, a page listing one name in more than
\* one row included.
C23_NoTwoCourtsWithOneName ==
    pc = "done" =>
        \A i, j \in 1..Len(ret[1]) :
            ret[1][i].name = ret[1][j].name => i = j

\* C24: a failed token request (status other than 200, no token input, or a
\* raised exception) does not end the fetch: the step goes on to the search of
\* the same page, the search carries an empty token, and the page rules then
\* apply as usual.
C24_TokenFailureNotFatal ==
    /\ [](pc = "search" => csrf_token = <<>>)
    /\ [][pc = "token" =>
            /\ pc' = "search" /\ csrf_token' = <<>>
            /\ requests' = Append(requests, "token")
            /\ UNCHANGED <<page, all_courts, all_html_content, ret, terminal,
                           last_request_urls>>]_vars
    /\ [][pc = "search" =>
            /\ requests' = Append(requests, "search")
            /\ resp_status' # Raised =>
                   last_request_urls' = Append(last_request_urls, Url(page))]_vars

\* both token requests of a two-page fetch failed, and the fetch still
\* requested both pages, aggregated their courts and ended for want of a
\* further page
C24_Witness ==
    /\ pc = "done" /\ terminal = "nomore" /\ page = 2
    /\ requests = <<"home", "token", "search", "token", "search">>
    /\ Len(aggregate) = 2

\* C25: _initialize_session reports success exactly when the landing page
\* answers with a status below 500 (403, 404 and redirects included) and
\* failure when the status is 500 or above or the request raises; it never
\* raises: the caller always gets to act on the answer.
C25_SessionSuccessBelow500 ==
    /\ [](home_status # 0 =>
            ((terminal = "bootstrap") <=> (home_status = Raised \/ home_status >= 500)))
    /\ [][pc = "init" =>
            /\ pc' \in {"token", "done"}
            /\ requests' = <<"home">>
            /\ (pc' = "token") <=> (home_status' # Raised /\ home_status' < 500)
            /\ (pc' = "done") => ret' = <<<<>>, <<>>>>]_vars

\* the landing page answered 404 and the fetch went on to its first page
C25_Witness ==
    /\ pc = "token" /\ page = 1 /\ home_status = 404
    /\ requests = <<"home">> /\ terminal = "none"

\* the slots parse_court_data gives the court of row when the booking row
\* after it holds the buttons bs
SlotsOf(row, bs) ==
    LET found == ParseCourtData(<<Table(<<row, CartRow(bs)>>)>>)
    IN IF found = <<>> THEN <<>> ELSE found[1].time_slots

\* C26: the slot list holds one slot per booking button that is not skipped,
\* in document order; a button that is not available and has no nested label
\* is skipped and changes nothing for the buttons before and after it: the
\* list is the concatenation of what each button gives when it stands alone.
C26_OneSlotPerKeptButton ==
    (parsed # Unparsed /\ Len(ParsedCourts) = 1) =>
        LET row == soup[1].rows[1]
            bs == soup[1].rows[2].buttons
        IN /\ ParsedCourts[1].time_slots =
                  Flatten([j \in 1..Len(bs) |-> SlotsOf(row, <<bs[j]>>)])
           /\ \A j \in 1..Len(bs) :
                  Len(SlotsOf(row, <<bs[j]>>)) =
                      IF ~Marked(bs[j]) /\ bs[j].spans = <<>> THEN 0 ELSE 1

\* an unavailable button without nested label came first and was skipped, and
\* the available button after it still gave its slot
C26_Witness ==
    /\ parsed # Unparsed
    /\ soup[1].rows[2].buttons = <<ButtonBare, ButtonAvailable>>
    /\ Len(ParsedCourts) = 1
    /\ Len(ParsedCourts[1].time_slots) = 1
    /\ ParsedCourts[1].time_slots[1].status = "Available"

\* C27: a booking-control row supplies slots to at most one court, the court
\* whose row it immediately follows in its table; a court row that is not
\* immediately followed by a booking-control row gets no slots and the status
\* "No Schedule", never the slots of a booking row further on or in another
\* table: every court has the slots it has when its row and the row right
\* after it stand alone.
C27_SlotsFromImmediateSiblingOnly ==
    parsed # Unparsed =>
        /\ Len(ParsedCourts) = Len(AcceptedRows(soup))
        /\ \A k \in 1..Len(ParsedCourts) :
               LET p == AcceptedRows(soup)[k]
                   rows == soup[p[1]].rows
                   followed == p[2] + 1 <= Len(rows) /\ rows[p[2] + 1].cart
               IN IF followed
                  THEN ParsedCourts[k].time_slots =
                           SlotsOf(rows[p[2]], rows[p[2] + 1].buttons)
                  ELSE /\ ParsedCourts[k].time_slots = <<>>
                       /\ ParsedCourts[k].availability_status = "No Schedule"

\* two court rows and then a booking row: the first court got no slots, the
\* second got the booking row's slot
C27_Witness ==
    /\ parsed # Unparsed
    /\ soup = <<Table(<<CourtRow(T_NameA), CourtRow(T_NameB),
                        CartRow(<<ButtonAvailable>>)>>)>>
    /\ Len(ParsedCourts) = 2
    /\ ParsedCourts[1].time_slots = <<>>
    /\ ParsedCourts[1].availability_status = "No Schedule"
    /\ Len(ParsedCourts[2].time_slots) = 1

\* C28 as stated: the date of every extracted court is the tooltip of the date
\* badge when the Date cell has a badge with a tooltip, otherwise the Date
\* cell's visible text, otherwise the current date, and no court has an empty
\* date.
C28_DateNeverEmpty ==
    parsed # Unparsed =>
        \A k \in 1..Len(ParsedCourts) :
            LET row == RowAt(soup, AcceptedRows(soup)[k])
            IN /\ ParsedCourts[k].date =
                      IF row.date # <<>> /\ row.date[1].tooltip # <<>>
                      THEN row.date[1].tooltip
                      ELSE IF row.date # <<>> THEN Strip(row.date[1].text)
                      ELSE S_Today
               /\ ParsedCourts[k].date # <<>>

-----------------------------------------------------------------------------
(* The storage of extractions: Database on its SQLite adapter.              *)
(*                                                                         *)
(* db.courts is the set of the rows of table courts, db.time_slots the set  *)
(* of the rows of table time_slots, db.seq the last id AUTOINCREMENT gave   *)
(* out. Foreign keys are not enforced (the adapter never switches them on), *)
(* so ON DELETE CASCADE removes nothing. The order of a query's rows is not *)
(* modelled: a query gives a set, or a function of the row ids.             *)

T_Tomorrow == <<"0","7","/","1","2">>
T_8 == <<"8">>
T_9 == <<"9">>
T_10 == <<"1","0">>

StoreSlotKinds ==
    {TimeSlot(T_8, T_9, "Available"), TimeSlot(T_8, T_9, "Unavailable"),
     TimeSlot(T_9, T_10, "Unavailable")}

\* a Court as the extractor builds it
StoreCourt(name, date, slots) ==
    [name |-> name, sport_type |-> S_Tennis, location |-> <<"L">>,
     capacity |-> S_NA, availability_status |-> DeriveStatus(slots),
     date |-> date, time_slots |-> slots, price |-> None]

\* the extractions handed to insert_courts: one court on one date with every
\* slot list, another court, and the first court on another date
StoreCourts ==
    {StoreCourt(T_NameA, T_Date, slots) : slots \in BSeq(StoreSlotKinds, MaxStoreSlots)}
    \cup {StoreCourt(T_NameB, T_Date, <<>>),
          StoreCourt(T_NameA, T_Tomorrow, <<TimeSlot(T_8, T_9, "Available")>>)}

\* lines 337-353: the INSERTs of a court's slots, in order; the insert that
\* breaks UNIQUE(court_id, start_time, end_time, date) raises and ends them
RECURSIVE InsertSlots(_, _, _, _)
InsertSlots(rows, court_id, date, slots) ==
    IF slots = <<>> THEN [rows |-> rows, raised |-> FALSE]
    ELSE IF \E r \in rows : /\ r.court_id = court_id /\ r.date = date
                            /\ r.start_time = Head(slots).start_time
                            /\ r.end_time = Head(slots).end_time
    THEN [rows |-> rows, raised |-> TRUE]
    ELSE InsertSlots(rows \cup {[court_id |-> court_id,
                                 start_time |-> Head(slots).start_time,
                                 end_time |-> Head(slots).end_time,
                                 status |-> Head(slots).status,
                                 date |-> date]},
                     court_id, date, Tail(slots))

\* UNIQUE(name, date, time_slot), time_slot being the court's summary text
Conflicts(row, court) ==
    /\ row.name = court.name /\ row.date = court.date
    /\ row.time_slot = TimeSlotProperty(court)

\* lines 250-353, one pass of the loop body: INSERT OR REPLACE removes the
\* conflicting row and inserts the court under a new id (lastrowid), then the
\* slots stored under that id and date are deleted and the court's inserted
InsertCourt(d, court) ==
    LET court_id == d.seq + 1
        row == [id |-> court_id, name |-> court.name,
                sport_type |-> court.sport_type, location |-> court.location,
                capacity |-> court.capacity,
                availability_status |-> court.availability_status,
                date |-> court.date, time_slot |-> TimeSlotProperty(court),
                price |-> court.price]
        kept == {r \in d.courts : ~Conflicts(r, court)}
        cleared == {r \in d.time_slots :
                        ~(r.court_id = court_id /\ r.date = court.date)}
        slots == IF court.time_slots # <<>>
                 THEN InsertSlots(cleared, court_id, court.date, court.time_slots)
                 ELSE [rows |-> d.time_slots, raised |-> FALSE]
    IN [courts |-> kept \cup {row}, time_slots |-> slots.rows, seq |-> court_id,
        raised |-> slots.raised]

\* the extraction last stored for its name and date
Superseding(known, court) ==
    {c \in known : ~(c.name = court.name /\ c.date = court.date)} \cup {court}

\* lines 247-369: the loop over courts; a court whose statements raise is
\* logged and the loop goes on, and everything is committed at the end
RECURSIVE InsertAll(_, _, _)
InsertAll(d, known, list) ==
    IF list = <<>> THEN [db |-> d, latest |-> known]
    ELSE LET r == InsertCourt(d, Head(list))
         IN InsertAll([courts |-> r.courts, time_slots |-> r.time_slots,
                       seq |-> r.seq],
                      IF r.raised THEN known ELSE Superseding(known, Head(list)),
                      Tail(list))

\* db.insert_courts(courts)
InsertCourts ==
    /\ \E list \in BSeq(StoreCourts, 2) :
        /\ db.seq + Len(list) <= MaxRowId
        /\ \E r \in {InsertAll(db, latest, list)} :
            /\ db' = r.db
            /\ latest' = r.latest
    /\ UNCHANGED <<extract_vars, fetch_vars, monitor_vars>>

\* _load_time_slots(court_id, date)
LoadTimeSlots(d, court_id, date) ==
    {TimeSlot(r.start_time, r.end_time, r.status) :
        r \in {s \in d.time_slots : s.court_id = court_id /\ s.date = date}}

\* get_courts(date=date): the courts of the selected rows, by row id
GetCourts(d, date) ==
    LET rows == {r \in d.courts : date \in {None, <<>>} \/ r.date = date}
    IN [id \in {r.id : r \in rows} |->
           LET r == CHOOSE x \in rows : x.id = id
           IN [name |-> r.name, sport_type |-> r.sport_type,
               location |-> r.location, capacity |-> r.capacity,
               availability_status |-> r.availability_status, date |-> r.date,
               time_slots |-> LoadTimeSlots(d, r.id, r.date), price |-> r.price]]

StoreNext == InsertCourts

SpecStore == Init /\ [][StoreNext]_vars

\* C29 as stated: a later extraction of a court supersedes the earlier one for
\* the same name and date: get_courts for that date returns the court exactly
\* once, with exactly the time slots and the status of the extraction stored
\* last.
C29_LaterExtractionSupersedes ==
    \A c \in latest :
        LET got == GetCourts(db, c.date)
            ids == {id \in DOMAIN got : got[id].name = c.name}
        IN /\ Cardinality(ids) = 1
           /\ \A id \in ids :
                  /\ got[id].time_slots = {c.time_slots[i] : i \in 1..Len(c.time_slots)}
                  /\ got[id].availability_status = c.availability_status

-----------------------------------------------------------------------------
(* The monitor command's loop (cli/commands/monitor_cmd.py).                *)
(*                                                                         *)
(* The command runs in one thread; a signal handler runs between two of its *)
(* steps, so the loop test of line 121 and the increment of line 122 are    *)
(* separate steps. A fetch and its store are one step that returns, and     *)
(* the time until the next poll is counted in whole seconds.                *)

\* line 121: while not shutdown_requested
LoopContinues(flag) == ~flag

\* sleep mutant: the sleep lasts until the next poll is due
SleepOnUntilDue(left, flag) == left > 0

\* line 199: while sleep_time > 0 and not shutdown_requested
SleepOn(left, flag) == left > 0 /\ ~flag

\* lines 86-118: the command starts: handlers registered, counters at zero
MonitorStart ==
    /\ mpc = "idle"
    /\ \E d \in 0..MaxDays : days_ahead' = d
    /\ mpc' = "test"
    /\ poll_count' = 0
    /\ UNCHANGED <<shutdown_requested, day, sleep_time, fetched, signalled, summary>>
    /\ UNCHANGED <<extract_vars, fetch_vars, store_vars>>

\* lines 24-28: signal_handler, on SIGINT or SIGTERM while the command runs
SignalHandler ==
    /\ mpc \notin {"idle", "stopped"}
    /\ shutdown_requested' = TRUE
    /\ signalled' = IF signalled = <<>>
                    THEN <<[poll_count |-> poll_count, mpc |-> mpc]>>
                    ELSE signalled
    /\ UNCHANGED <<mpc, poll_count, days_ahead, day, sleep_time, fetched, summary>>
    /\ UNCHANGED <<extract_vars, fetch_vars, store_vars>>

\* line 121: the loop test (the model follows MaxPolls polls)
LoopTest ==
    /\ mpc = "test"
    /\ IF LoopContinues(shutdown_requested)
       THEN poll_count < MaxPolls /\ mpc' = "count"
       ELSE mpc' = "finally"
    /\ UNCHANGED <<shutdown_requested, poll_count, days_ahead, day, sleep_time,
                   fetched, signalled, summary>>
    /\ UNCHANGED <<extract_vars, fetch_vars, store_vars>>

\* lines 122-139: the poll is counted and its dates are listed
CountPoll ==
    /\ mpc = "count"
    /\ poll_count' = poll_count + 1
    /\ day' = 1
    /\ fetched' = 0
    /\ mpc' = IF days_ahead = 0 THEN "summary" ELSE "fetch"
    /\ UNCHANGED <<shutdown_requested, days_ahead, sleep_time, signalled, summary>>
    /\ UNCHANGED <<extract_vars, fetch_vars, store_vars>>

\* lines 140-173: one date is fetched and stored; whatever the fetch gives or
\* raises, the loop goes on with the next date
FetchDate ==
    /\ mpc = "fetch"
    /\ fetched' = fetched + 1
    /\ IF day < days_ahead
       THEN day' = day + 1 /\ mpc' = "fetch"
       ELSE day' = day /\ mpc' = "summary"
    /\ UNCHANGED <<shutdown_requested, poll_count, days_ahead, sleep_time,
                   signalled, summary>>
    /\ UNCHANGED <<extract_vars, fetch_vars, store_vars>>

\* lines 176-205: the poll's summary, and the time left until the next poll
PollDone ==
    /\ mpc = "summary"
    /\ IF ~shutdown_requested
       THEN \E left \in 0..MaxSleep :
               /\ sleep_time' = left
               /\ mpc' = IF left > 0 THEN "sleeptest" ELSE "test"
       ELSE mpc' = "test" /\ UNCHANGED sleep_time
    /\ UNCHANGED <<shutdown_requested, poll_count, days_ahead, day, fetched,
                   signalled, summary>>
    /\ UNCHANGED <<extract_vars, fetch_vars, store_vars>>

\* line 199: the test of the sleep loop
SleepTest ==
    /\ mpc = "sleeptest"
    /\ mpc' = IF SleepOn(sleep_time, shutdown_requested) THEN "sleeping" ELSE "test"
    /\ UNCHANGED <<shutdown_requested, poll_count, days_ahead, day, sleep_time,
                   fetched, signalled, summary>>
    /\ UNCHANGED <<extract_vars, fetch_vars, store_vars>>

\* lines 200-201: one chunk of sleep, which a handled signal does not cut short
SleepChunk ==
    /\ mpc = "sleeping"
    /\ sleep_time' = sleep_time - 1
    /\ mpc' = "sleeptest"
    /\ UNCHANGED <<shutdown_requested, poll_count, days_ahead, day, fetched,
                   signalled, summary>>
    /\ UNCHANGED <<extract_vars, fetch_vars, store_vars>>

\* lines 218-231: the finally block: the shutdown summary
ShutdownSummary ==
    /\ mpc = "finally"
    /\ summary' = <<poll_count>>
    /\ mpc' = "stopped"
    /\ UNCHANGED <<shutdown_requested, poll_count, days_ahead, day, sleep_time,
                   fetched, signalled>>
    /\ UNCHANGED <<extract_vars, fetch_vars, store_vars>>

\* the steps of the command's own thread
MonitorStep ==
    \/ LoopTest
    \/ CountPoll
    \/ FetchDate
    \/ PollDone
    \/ SleepTest
    \/ SleepChunk
    \/ ShutdownSummary

MonitorNext ==
    \/ MonitorStart
    \/ SignalHandler
    \/ MonitorStep

SpecMonitor == Init /\ [][MonitorNext]_vars

\* the command's thread keeps running; signals may or may not come
FairSpecMonitor == SpecMonitor /\ WF_vars(MonitorStep)

\* what holds of the rest of a run whatever the claim about the poll counter:
\* a sleep is left at its next test, a poll fetches every one of its dates,
\* and the loop ends with the shutdown summary
ShutdownRest ==
    /\ [][(shutdown_requested /\ mpc = "sleeptest") => mpc' = "test"]_vars
    /\ [][mpc = "fetch" => mpc' \in {"fetch", "summary"}]_vars
    /\ [](mpc = "summary" => fetched = days_ahead)
    /\ shutdown_requested ~> (mpc = "stopped" /\ summary = <<poll_count>>)

====
